---- MODULE Spec2Model ----
(***************************************************************************)
(* A model of cleanup_script.py, the one-shot migration script that        *)
(* rewrites Dart print(...) calls into Logger calls.                       *)
(*                                                                         *)
(* Text is modelled character by character: a file content, a path and a  *)
(* tag are sequences of one-character strings, and the regular            *)
(* expressions of the script are run by a backtracking matcher with       *)
(* Python's semantics (leftmost match, greedy quantifiers that give back   *)
(* one character at a time, non-overlapping global substitution).          *)
(*                                                                         *)
(* Paths are compared as the strings the script holds; glob is modelled    *)
(* as on a POSIX platform, where it returns paths joined with "/".         *)
(***************************************************************************)
EXTENDS Naturals, Sequences, FiniteSets

VARIABLES
    disk,        \* the files on disk: a function from path to content
    out,         \* standard output: the sequence of notices printed
    writes,      \* the sequence of paths opened for writing
    calls,       \* the sequence of paths process_file was called with
    pc,          \* position of the running script or function
    i,           \* index of the loop over key_files
    dart_files,  \* the list glob returned (the empty list before the scan)
    j,           \* index of the loop over dart_files
    file_path,   \* the argument of the function under study
    log_tag,     \* the tag argument of replace_print_with_logger
    class_name,  \* the value get_log_tag_from_path returned
    passes,      \* how many times the function under study has run
    prev,        \* the file's content before the latest run
    rematched,   \* a rule of the latest pass matched text a previous rule produced
    orig         \* the disk at the start

vars == <<disk, out, writes, calls, pc, i, dart_files, j, file_path, log_tag,
          class_name, passes, prev, rematched, orig>>

----------------------------------------------------------------------------
(* Sequences of characters *)

\* s[a..b-1], the Python slice s[a-1:b-1] with 1-based a.
Slice(s, a, b) == SubSeq(s, a, b - 1)

\* s[at-1:].startswith(lit)
HasAt(s, at, lit) ==
    /\ at + Len(lit) - 1 <= Len(s)
    /\ \A k \in 1..Len(lit) : s[at + k - 1] = lit[k]

\* lit in s
Contains(s, lit) == \E at \in 1..(Len(s) + 1) : HasAt(s, at, lit)

\* s.find(lit, at-1) + 1, with 0 for "not found"
Find(s, lit, at) ==
    LET found == {k \in at..(Len(s) - Len(lit) + 1) : s[k] = lit[1] /\ HasAt(s, k, lit)} IN
    IF found = {} THEN 0 ELSE CHOOSE k \in found : \A l \in found : k <= l

RECURSIVE Concat(_)
Concat(ss) == IF ss = <<>> THEN <<>> ELSE Head(ss) \o Concat(Tail(ss))

----------------------------------------------------------------------------
(* The regular expressions of the script.  A pattern is a sequence of     *)
(* elements: a literal, a group parenthesis, or a negated character class *)
(* [^c] under + (min 1) or * (min 0).                                      *)

Lit(s) == [t |-> "lit", s |-> s, c |-> "", min |-> 0]
NotPlus(c) == [t |-> "not", s |-> <<>>, c |-> c, min |-> 1]
NotStar(c) == [t |-> "not", s |-> <<>>, c |-> c, min |-> 0]
Open == [t |-> "open", s |-> <<>>, c |-> "", min |-> 0]
Close == [t |-> "close", s |-> <<>>, c |-> "", min |-> 0]

NoMatch == [ok |-> FALSE, end |-> 0, g |-> <<>>]

\* The length of the longest run of characters other than c that starts at `at`.
RECURSIVE RunNot(_, _, _)
RunNot(s, at, c) ==
    IF at > Len(s) \/ s[at] = c THEN 0 ELSE 1 + RunNot(s, at + 1, c)

\* re.match of pat[p..] at position `at`: the first match in backtracking
\* order.  g collects the group boundaries (start, end+1, start, end+1, ...).
RECURSIVE MatchAt(_, _, _, _, _)
RECURSIVE Greedy(_, _, _, _, _, _)
MatchAt(s, at, pat, p, g) ==
    IF p > Len(pat) THEN [ok |-> TRUE, end |-> at, g |-> g]
    ELSE LET e == pat[p] IN
         CASE e.t = "lit" ->
                IF HasAt(s, at, e.s) THEN MatchAt(s, at + Len(e.s), pat, p + 1, g)
                ELSE NoMatch
           [] e.t = "not" -> Greedy(s, at, pat, p, g, RunNot(s, at, e.c))
           [] OTHER -> MatchAt(s, at, pat, p + 1, Append(g, at))

\* A greedy quantifier: the longest repetition first, then one less, down to min.
Greedy(s, at, pat, p, g, k) ==
    IF k < pat[p].min THEN NoMatch
    ELSE LET r == MatchAt(s, at + k, pat, p + 1, g) IN
         IF r.ok THEN r ELSE Greedy(s, at, pat, p, g, k - 1)

\* A replacement template: literal text and group references \n.
Txt(s) == [t |-> "txt", s |-> s, n |-> 0]
Grp(n) == [t |-> "grp", s |-> <<>>, n |-> n]

\* match.expand(template): the text, and for each character whether the
\* template's literal text put it there (a copied group keeps its marks).
RECURSIVE Expand(_, _, _)
Expand(tmpl, st, g) ==
    IF tmpl = <<>> THEN [c |-> <<>>, m |-> <<>>]
    ELSE LET h == Head(tmpl)
             rest == Expand(Tail(tmpl), st, g)
         IN  IF h.t = "txt"
             THEN [c |-> h.s \o rest.c,
                   m |-> [k \in 1..Len(h.s) |-> TRUE] \o rest.m]
             ELSE [c |-> Slice(st.c, g[2 * h.n - 1], g[2 * h.n]) \o rest.c,
                   m |-> Slice(st.m, g[2 * h.n - 1], g[2 * h.n]) \o rest.m]

\* re.sub(pat, tmpl, content): every non-overlapping match, leftmost first,
\* replaced by the expanded template.  st = [c, m, hit] carries the text, the
\* marks of the characters earlier substitutions produced, and whether a
\* match has covered a marked character.  Every pattern of the script starts
\* with a literal, so a match can only start where that literal occurs.
RECURSIVE SubFrom(_, _, _, _, _)
SubFrom(st, at, pat, tmpl, acc) ==
    LET n == Len(st.c)
        cand == Find(st.c, pat[1].s, at)
    IN  IF cand = 0
        THEN [c |-> acc.c \o Slice(st.c, at, n + 1),
              m |-> acc.m \o Slice(st.m, at, n + 1),
              hit |-> acc.hit]
        ELSE LET r == MatchAt(st.c, cand, pat, 1, <<>>) IN
             IF r.ok
             THEN LET x == Expand(tmpl, st, r.g) IN
                  SubFrom(st, r.end, pat, tmpl,
                          [c |-> acc.c \o Slice(st.c, at, cand) \o x.c,
                           m |-> acc.m \o Slice(st.m, at, cand) \o x.m,
                           hit |-> acc.hit \/ \E k \in cand..(r.end - 1) : st.m[k]])
             ELSE SubFrom(st, cand + 1, pat, tmpl,
                          [c |-> acc.c \o Slice(st.c, at, cand + 1),
                           m |-> acc.m \o Slice(st.m, at, cand + 1),
                           hit |-> acc.hit])

re_sub(pat, tmpl, st) ==
    SubFrom(st, 1, pat, tmpl, [c |-> <<>>, m |-> <<>>, hit |-> st.hit])

----------------------------------------------------------------------------
(* The text literals of the script *)

PRINT_SQ_DEBUG ==
    <<"p","r","i","n","t","(","'","D","E","B","U","G",":"," ">>
PRINT_SQ_DEBUG_ERROR_IN ==
    <<"p","r","i","n","t","(","'","D","E","B","U","G",":"," ","E","r","r","o","r"," ","i","n"," ">>
PRINT_DQ ==
    <<"p","r","i","n","t","(","\"">>
END_SQ ==
    <<"'",")",";">>
END_DQ ==
    <<"\"",")",";">>
COLON_DOLLAR ==
    <<":"," ","$">>
COLON_DOLLAR_E_END_SQ ==
    <<":"," ","$","e","'",")",";">>
COLON_DOLLAR_E_END_DQ ==
    <<":"," ","$","e","\"",")",";">>
ERROR ==
    <<"E","r","r","o","r">>
LOGGER_D ==
    <<"L","o","g","g","e","r",".","d","(","'">>
LOGGER_E ==
    <<"L","o","g","g","e","r",".","e","(","'">>
LOGGER_E_ERROR_IN ==
    <<"'",","," ","'","E","r","r","o","r"," ","i","n"," ">>
QUOTE_COMMA_QUOTE ==
    <<"'",","," ","'">>
QUOTE_COMMA_E_END ==
    <<"'",","," ","e",")",";">>

----------------------------------------------------------------------------
(* replace_print_with_logger: the seven substitutions, in the script's order *)

\* r"print\('DEBUG: ([^']+)'\);"
PatternA == <<Lit(PRINT_SQ_DEBUG), Open, NotPlus("'"), Close, Lit(END_SQ)>>
\* r"print\('DEBUG: ([^:]+): \$([^']+)'\);"
PatternB == <<Lit(PRINT_SQ_DEBUG), Open, NotPlus(":"), Close, Lit(COLON_DOLLAR),
              Open, NotPlus("'"), Close, Lit(END_SQ)>>
\* r"print\('DEBUG: Error in ([^:]+): \$e'\);"
PatternC == <<Lit(PRINT_SQ_DEBUG_ERROR_IN), Open, NotPlus(":"), Close,
              Lit(COLON_DOLLAR_E_END_SQ)>>
\* r"print\('DEBUG: ([^:]+Error[^:]*): \$e'\);"
PatternD == <<Lit(PRINT_SQ_DEBUG), Open, NotPlus(":"), Lit(ERROR), NotStar(":"), Close,
              Lit(COLON_DOLLAR_E_END_SQ)>>
\* r'print\("([^:]+Error[^:]*): \$e"\);'
PatternE == <<Lit(PRINT_DQ), Open, NotPlus(":"), Lit(ERROR), NotStar(":"), Close,
              Lit(COLON_DOLLAR_E_END_DQ)>>
\* r'print\("([^"]+)"\);'
PatternF == <<Lit(PRINT_DQ), Open, NotPlus("\""), Close, Lit(END_DQ)>>
\* r'print\("([^:]+): \$([^"]+)"\);'
PatternG == <<Lit(PRINT_DQ), Open, NotPlus(":"), Close, Lit(COLON_DOLLAR),
              Open, NotPlus("\""), Close, Lit(END_DQ)>>

\* r"Logger.d('{}', '\1');".format(log_tag)
TemplateD1(tag) ==
    <<Txt(LOGGER_D), Txt(tag), Txt(QUOTE_COMMA_QUOTE), Grp(1), Txt(END_SQ)>>
\* r"Logger.d('{}', '\1: $\2');".format(log_tag)
TemplateD2(tag) ==
    <<Txt(LOGGER_D), Txt(tag), Txt(QUOTE_COMMA_QUOTE), Grp(1), Txt(COLON_DOLLAR),
      Grp(2), Txt(END_SQ)>>
\* r"Logger.e('{}', 'Error in \1', e);".format(log_tag)
TemplateEIn(tag) ==
    <<Txt(LOGGER_E), Txt(tag), Txt(LOGGER_E_ERROR_IN), Grp(1), Txt(QUOTE_COMMA_E_END)>>
\* r"Logger.e('{}', '\1', e);".format(log_tag)
TemplateE(tag) ==
    <<Txt(LOGGER_E), Txt(tag), Txt(QUOTE_COMMA_QUOTE), Grp(1), Txt(QUOTE_COMMA_E_END)>>

\* The content as read from the file: no character produced by a rule yet.
Fresh(content) ==
    [c |-> content, m |-> [k \in 1..Len(content) |-> FALSE], hit |-> FALSE]

RuleA(st, tag) == re_sub(PatternA, TemplateD1(tag), st)
RuleB(st, tag) == re_sub(PatternB, TemplateD2(tag), st)
RuleC(st, tag) == re_sub(PatternC, TemplateEIn(tag), st)
RuleD(st, tag) == re_sub(PatternD, TemplateE(tag), st)
RuleE(st, tag) == re_sub(PatternE, TemplateE(tag), st)
RuleF(st, tag) == re_sub(PatternF, TemplateD1(tag), st)
RuleG(st, tag) == re_sub(PatternG, TemplateD2(tag), st)

\* content after the seven re.sub calls, each applied to the previous result
Rewrite(content, tag) ==
    RuleG(RuleF(RuleE(RuleD(RuleC(RuleB(RuleA(Fresh(content), tag), tag), tag), tag),
                      tag), tag), tag)

\* The world a function acts on: w = [disk, out, writes], and in hit whether
\* a rule of the pass matched text that an earlier rule of the pass produced.
replace_print_with_logger(w, path, tag) ==
    LET r == Rewrite(w.disk[path], tag) IN
    [disk   |-> [w.disk EXCEPT ![path] = r.c],
     out    |-> Append(w.out, <<"Replaced print statements in", path>>),
     writes |-> Append(w.writes, path),
     hit    |-> r.hit]

----------------------------------------------------------------------------
(* get_log_tag_from_path *)

Lowers ==
    <<"a","b","c","d","e","f","g","h","i","j","k","l","m","n","o","p","q","r","s","t","u","v","w","x","y","z">>
Uppers ==
    <<"A","B","C","D","E","F","G","H","I","J","K","L","M","N","O","P","Q","R","S","T","U","V","W","X","Y","Z">>

\* str.upper and str.lower of one character (ASCII letters)
ToUpper(ch) ==
    IF \E k \in 1..Len(Lowers) : Lowers[k] = ch
    THEN Uppers[CHOOSE k \in 1..Len(Lowers) : Lowers[k] = ch]
    ELSE ch
ToLower(ch) ==
    IF \E k \in 1..Len(Uppers) : Uppers[k] = ch
    THEN Lowers[CHOOSE k \in 1..Len(Uppers) : Uppers[k] = ch]
    ELSE ch

\* s.rfind(ch) + 1: the last position of ch in s, 0 when there is none
RFind(s, ch) ==
    LET at == {k \in 1..Len(s) : s[k] = ch} IN
    IF at = {} THEN 0 ELSE CHOOSE k \in at : \A l \in at : l <= k

\* os.path.basename(p): what follows the last "/"
basename(p) == Slice(p, RFind(p, "/") + 1, Len(p) + 1)

\* os.path.splitext(p)[0]: p up to its last dot, when that dot is in the last
\* component and some character other than a dot precedes it there
splitext_root(p) ==
    LET sepIndex == RFind(p, "/")
        dotIndex == RFind(p, ".")
    IN  IF dotIndex > sepIndex /\ \E k \in (sepIndex + 1)..(dotIndex - 1) : p[k] # "."
        THEN Slice(p, 1, dotIndex)
        ELSE p

\* s.split(ch): the pieces between the occurrences of ch (some may be empty)
RECURSIVE split(_, _)
split(s, ch) ==
    LET at == Find(s, <<ch>>, 1) IN
    IF at = 0 THEN <<s>>
    ELSE <<Slice(s, 1, at)>> \o split(Slice(s, at + 1, Len(s) + 1), ch)

\* A variant of capitalize that leaves the other characters as they are.
capitalize_KeepRest(word) ==
    [k \in 1..Len(word) |-> IF k = 1 THEN ToUpper(word[k]) ELSE word[k]]

\* word.capitalize(): the first character upper-cased, the others lower-cased
capitalize(word) ==
    [k \in 1..Len(word) |-> IF k = 1 THEN ToUpper(word[k]) ELSE ToLower(word[k])]

get_log_tag_from_path(path) ==
    LET file_name == basename(path)
        words == split(splitext_root(file_name), "_")
    IN  Concat([k \in 1..Len(words) |-> capitalize(words[k])])

----------------------------------------------------------------------------
(* add_logger_import *)

LOGGER_IMPORT ==
    <<"i","m","p","o","r","t"," ","'","p","a","c","k","a","g","e",":","y","e","t","u","g","a","/","u","t","i","l","s","/","l","o","g","g","e","r",".","d","a","r","t","'",";">>
LOGGER_IMPORT_LINE ==
    <<"i","m","p","o","r","t"," ","'","p","a","c","k","a","g","e",":","y","e","t","u","g","a","/","u","t","i","l","s","/","l","o","g","g","e","r",".","d","a","r","t","'",";","\n">>
IMPORT_SPACE ==
    <<"i","m","p","o","r","t"," ">>
SEMICOLON_NEWLINE ==
    <<";","\n">>

\* r'(import [^;]+;)\n'
\* (the code reads group(0), the whole match; group 1 is not used)
ImportPattern == <<Lit(IMPORT_SPACE), NotPlus(";"), Lit(SEMICOLON_NEWLINE)>>

\* re.search(pat, s): the leftmost match, as [ok, start, end] (end exclusive)
RECURSIVE SearchFrom(_, _, _)
SearchFrom(s, pat, at) ==
    LET cand == Find(s, pat[1].s, at) IN
    IF cand = 0 THEN [ok |-> FALSE, start |-> 0, end |-> 0]
    ELSE LET r == MatchAt(s, cand, pat, 1, <<>>) IN
         IF r.ok THEN [ok |-> TRUE, start |-> cand, end |-> r.end]
         ELSE SearchFrom(s, pat, cand + 1)
re_search(pat, s) == SearchFrom(s, pat, 1)

\* s.replace(old, new): every non-overlapping occurrence of old, from the left
RECURSIVE str_replace(_, _, _)
str_replace(s, old, new) ==
    LET at == Find(s, old, 1) IN
    IF at = 0 THEN s
    ELSE Slice(s, 1, at) \o new
         \o str_replace(Slice(s, at + Len(old), Len(s) + 1), old, new)

\* A variant of add_logger_import that appends the logging import to a file
\* in which no import line is found.
add_logger_import_AppendWhenNoImport(w, path) ==
    LET content == w.disk[path]
        import_match == re_search(ImportPattern, content)
        last_import == Slice(content, import_match.start, import_match.end)
    IN  IF Contains(content, LOGGER_IMPORT) THEN w
        ELSE [w EXCEPT
                !.disk[path] =
                    IF import_match.ok
                    THEN str_replace(content, last_import,
                                     last_import \o LOGGER_IMPORT_LINE)
                    ELSE content \o LOGGER_IMPORT_LINE,
                !.writes = Append(@, path),
                !.out = Append(@, <<"Added Logger import to", path>>)]

add_logger_import(w, path) ==
    LET content == w.disk[path]
        import_match == re_search(ImportPattern, content)
        last_import == Slice(content, import_match.start, import_match.end)
    IN  IF ~Contains(content, LOGGER_IMPORT) /\ import_match.ok
        THEN [w EXCEPT
                !.disk[path] = str_replace(content, last_import,
                                           last_import \o LOGGER_IMPORT_LINE),
                !.writes = Append(@, path),
                !.out = Append(@, <<"Added Logger import to", path>>)]
        ELSE w

----------------------------------------------------------------------------
(* process_file and the script's two loops *)

process_file(w, path) ==
    replace_print_with_logger(add_logger_import(w, path), path,
                              get_log_tag_from_path(path))

KF1 ==
    <<"l","i","b","/","s","c","r","e","e","n","s","/","o","n","b","o","a","r","d","i","n","g","/","o","n","b","o","a","r","d","i","n","g","_","s","c","r","e","e","n",".","d","a","r","t">>
KF2 ==
    <<"l","i","b","/","s","c","r","e","e","n","s","/","o","n","b","o","a","r","d","i","n","g","/","s","t","e","p","s","/","d","i","s","p","l","a","y","_","n","a","m","e","_","s","t","e","p",".","d","a","r","t">>
KF3 ==
    <<"l","i","b","/","s","e","r","v","i","c","e","s","/","f","i","r","e","b","a","s","e","_","s","e","r","v","i","c","e",".","d","a","r","t">>
KF4 ==
    <<"l","i","b","/","m","a","i","n",".","d","a","r","t">>
KF5 ==
    <<"l","i","b","/","m","o","d","e","l","s","/","o","n","b","o","a","r","d","i","n","g","_","d","a","t","a",".","d","a","r","t">>
KF6 ==
    <<"l","i","b","/","p","r","o","v","i","d","e","r","s","/","a","u","t","h","_","p","r","o","v","i","d","e","r",".","d","a","r","t">>
KF7 ==
    <<"l","i","b","/","p","r","o","v","i","d","e","r","s","/","o","n","b","o","a","r","d","i","n","g","_","p","r","o","v","i","d","e","r",".","d","a","r","t">>
KF8 ==
    <<"l","i","b","/","s","c","r","e","e","n","s","/","a","u","t","h","/","a","u","t","h","_","s","c","r","e","e","n",".","d","a","r","t">>
KF9 ==
    <<"l","i","b","/","s","c","r","e","e","n","s","/","a","u","t","h","/","e","m","a","i","l","_","s","i","g","n","i","n","_","s","c","r","e","e","n",".","d","a","r","t">>
KF10 ==
    <<"l","i","b","/","s","e","r","v","i","c","e","s","/","s","t","o","r","a","g","e","_","s","e","r","v","i","c","e",".","d","a","r","t">>

key_files == <<KF1, KF2, KF3, KF4, KF5, KF6, KF7, KF8, KF9, KF10>>

LOGGER_DART ==
    <<"l","i","b","/","u","t","i","l","s","/","l","o","g","g","e","r",".","d","a","r","t">>
LIB_SLASH ==
    <<"l","i","b","/">>
DOT_DART ==
    <<".","d","a","r","t">>

InKeyFiles(path) == \E k \in 1..Len(key_files) : key_files[k] = path

\* os.path.exists(file_path)
Exists(path) == path \in DOMAIN disk

\* A variant of KeyFileAt that walks key_files from its end.
KeyFileAt_Reversed(k) == key_files[Len(key_files) - k + 1]

\* the file_path the first loop visits at its k-th iteration
KeyFileAt(k) == key_files[k]

\* Variants of Skipped that test one of the two conditions only.
Skipped_LoggerOnly(path) == path = LOGGER_DART
Skipped_KeyFilesOnly(path) == InKeyFiles(path)

\* file_path == 'lib/utils/logger.dart' or file_path in key_files
Skipped(path) == path = LOGGER_DART \/ InKeyFiles(path)

\* What glob.glob('lib/**/*.dart', recursive=True) matches: the paths under
\* lib/ whose name ends in .dart, no component of which starts with a dot.
GlobMatches(paths) ==
    {p \in paths :
        /\ HasAt(p, 1, LIB_SLASH)
        /\ Len(p) >= Len(DOT_DART)
        /\ HasAt(p, Len(p) - Len(DOT_DART) + 1, DOT_DART)
        /\ \A k \in 1..Len(p) : (k = 1 \/ p[k - 1] = "/") => p[k] # "."}

\* The lists glob may return: the matches in any order (the traversal order
\* is the platform's).
Orders(S) ==
    {f \in [1..Cardinality(S) -> S] : \A a, b \in 1..Cardinality(S) : f[a] = f[b] => a = b}

----------------------------------------------------------------------------
(* The rewriter alone: replace_print_with_logger called on one file, whose  *)
(* content is any sequence of at most MaxAtoms pieces of print calls.       *)

MaxAtoms == 5
MaxPasses == 2

MAIN_DART ==
    <<"l","i","b","/","m","a","i","n",".","d","a","r","t">>
ERROR_IN_SAVE_E ==
    <<"E","r","r","o","r"," ","i","n"," ","s","a","v","e",":"," ","$","e">>

RewriteAtoms ==
    {PRINT_SQ_DEBUG, PRINT_DQ, END_SQ, END_DQ, ERROR_IN_SAVE_E, <<"x">>}
LogTags == {<<"M","a","i","n">>}

Texts(atoms, n) == UNION {[1..k -> atoms] : k \in 0..n}

World == [disk |-> disk, out |-> out, writes |-> writes, hit |-> rematched]

InitRewrite ==
    /\ file_path = MAIN_DART
    /\ log_tag \in LogTags
    /\ \E toks \in Texts(RewriteAtoms, MaxAtoms) :
            disk = [p \in {file_path} |-> Concat(toks)]
    /\ orig = disk
    /\ prev = disk[file_path]
    /\ out = <<>> /\ writes = <<>> /\ calls = <<>>
    /\ pc = "replace" /\ i = 1 /\ j = 1 /\ dart_files = <<>>
    /\ class_name = <<>> /\ passes = 0 /\ rematched = FALSE

\* replace_print_with_logger(file_path, log_tag)
Replace ==
    /\ pc = "replace"
    /\ passes < MaxPasses
    /\ LET w == replace_print_with_logger(World, file_path, log_tag) IN
          /\ disk' = w.disk
          /\ out' = w.out
          /\ writes' = w.writes
          /\ rematched' = w.hit
    /\ prev' = disk[file_path]
    /\ passes' = passes + 1
    /\ UNCHANGED <<calls, pc, i, dart_files, j, file_path, log_tag, class_name, orig>>

NextRewrite == Replace

SpecRewrite == InitRewrite /\ [][NextRewrite]_vars

----------------------------------------------------------------------------
(* add_logger_import alone, on one file made of at most MaxImportAtoms lines *)

MaxImportAtoms == 4

IMPORT_A_LINE ==
    <<"i","m","p","o","r","t"," ","'","a","'",";","\n">>
IMPORT_B_LINE ==
    <<"i","m","p","o","r","t"," ","'","b","'",";","\n">>
IMPORT_A ==
    <<"i","m","p","o","r","t"," ","'","a","'",";">>
X_LINE ==
    <<"x","\n">>

ImportAtoms == {IMPORT_A_LINE, IMPORT_B_LINE, IMPORT_A, X_LINE, LOGGER_IMPORT}

InitImport ==
    /\ file_path = MAIN_DART
    /\ log_tag = <<>>
    /\ \E toks \in Texts(ImportAtoms, MaxImportAtoms) :
            disk = [p \in {file_path} |-> Concat(toks)]
    /\ orig = disk
    /\ prev = disk[file_path]
    /\ out = <<>> /\ writes = <<>> /\ calls = <<>>
    /\ pc = "import" /\ i = 1 /\ j = 1 /\ dart_files = <<>>
    /\ class_name = <<>> /\ passes = 0 /\ rematched = FALSE

\* add_logger_import(file_path)
AddImport ==
    /\ pc = "import"
    /\ passes < MaxPasses
    /\ LET w == add_logger_import(World, file_path) IN
          /\ disk' = w.disk
          /\ out' = w.out
          /\ writes' = w.writes
    /\ prev' = disk[file_path]
    /\ passes' = passes + 1
    /\ UNCHANGED <<calls, pc, i, dart_files, j, file_path, log_tag, class_name,
                   rematched, orig>>

NextImport == AddImport

SpecImport == InitImport /\ [][NextImport]_vars

----------------------------------------------------------------------------
(* get_log_tag_from_path alone, on any path of at most MaxPathLen characters *)

MaxPathLen == 5

PathChars == {"a", "B", "_", ".", "/"}

InitTag ==
    /\ file_path \in Texts(PathChars, MaxPathLen)
    /\ log_tag = <<>>
    /\ disk = <<>> /\ orig = <<>> /\ prev = <<>>
    /\ out = <<>> /\ writes = <<>> /\ calls = <<>>
    /\ pc = "tag" /\ i = 1 /\ j = 1 /\ dart_files = <<>>
    /\ class_name = <<>> /\ passes = 0 /\ rematched = FALSE

\* class_name = get_log_tag_from_path(file_path)
Tag ==
    /\ pc = "tag"
    /\ class_name' = get_log_tag_from_path(file_path)
    /\ pc' = "tagged"
    /\ UNCHANGED <<disk, out, writes, calls, i, dart_files, j, file_path, log_tag,
                   passes, prev, rematched, orig>>

NextTag == Tag

SpecTag == InitTag /\ [][NextTag]_vars

----------------------------------------------------------------------------
(* The script: the loop over key_files, then the loop over glob's result.  *)
(* At most MaxFiles of the paths of FilePaths exist, all with one content. *)

MaxFiles == 4

MY_BUTTON_DART ==
    <<"l","i","b","/","w","i","d","g","e","t","s","/","m","y","_","b","u","t","t","o","n",".","d","a","r","t">>
APP_DART ==
    <<"l","i","b","/","a","p","p",".","d","a","r","t">>
HIDDEN_DART ==
    <<"l","i","b","/",".","c","a","c","h","e","/","g","e","n",".","d","a","r","t">>
WIDGET_TEST_DART ==
    <<"t","e","s","t","/","w","i","d","g","e","t","_","t","e","s","t",".","d","a","r","t">>
SAMPLE_WITH_IMPORT ==
    <<"i","m","p","o","r","t"," ","'","a","'",";","\n","p","r","i","n","t","(","'","D","E","B","U","G",":"," ","x","'",")",";","\n">>
SAMPLE_NO_IMPORT ==
    <<"p","r","i","n","t","(","\"","x","\"",")",";","\n">>

FilePaths ==
    {KF1, KF4, KF10, LOGGER_DART, MY_BUTTON_DART, APP_DART, HIDDEN_DART, WIDGET_TEST_DART}
FileContents == {SAMPLE_WITH_IMPORT, SAMPLE_NO_IMPORT}

Init ==
    /\ \E S \in SUBSET FilePaths : \E content \in FileContents :
            /\ Cardinality(S) <= MaxFiles
            /\ disk = [p \in S |-> content]
    /\ orig = disk
    /\ out = <<>> /\ writes = <<>> /\ calls = <<>>
    /\ pc = "key_files" /\ i = 1 /\ j = 1 /\ dart_files = <<>>
    /\ file_path = <<>> /\ log_tag = <<>> /\ class_name = <<>>
    /\ prev = <<>> /\ passes = 0 /\ rematched = FALSE

\* process_file(path), called from one of the loops
Process(path) ==
    LET w == process_file(World, path) IN
        /\ disk' = w.disk
        /\ out' = w.out
        /\ writes' = w.writes
        /\ calls' = Append(calls, path)

\* one iteration of: for file_path in key_files
KeyFilesLoop ==
    /\ pc = "key_files"
    /\ i <= Len(key_files)
    /\ IF Exists(KeyFileAt(i))
       THEN Process(KeyFileAt(i))
       ELSE UNCHANGED <<disk, out, writes, calls>>
    /\ i' = i + 1
    /\ UNCHANGED <<pc, dart_files, j, file_path, log_tag, class_name, passes, prev,
                   rematched, orig>>

\* dart_files = glob.glob('lib/**/*.dart', recursive=True)
Glob ==
    /\ pc = "key_files"
    /\ i > Len(key_files)
    /\ dart_files' \in Orders(GlobMatches(DOMAIN disk))
    /\ pc' = "dart_files"
    /\ UNCHANGED <<disk, out, writes, calls, i, j, file_path, log_tag, class_name,
                   passes, prev, rematched, orig>>

\* one iteration of: for file_path in dart_files
DartFilesLoop ==
    /\ pc = "dart_files"
    /\ j <= Len(dart_files)
    /\ IF Skipped(dart_files[j])
       THEN UNCHANGED <<disk, out, writes, calls>>
       ELSE Process(dart_files[j])
    /\ j' = j + 1
    /\ UNCHANGED <<pc, dart_files, i, file_path, log_tag, class_name, passes, prev,
                   rematched, orig>>

\* the end of the script
Exit ==
    /\ pc = "dart_files"
    /\ j > Len(dart_files)
    /\ pc' = "done"
    /\ UNCHANGED <<disk, out, writes, calls, i, dart_files, j, file_path, log_tag,
                   class_name, passes, prev, rematched, orig>>

Next == KeyFilesLoop \/ Glob \/ DartFilesLoop \/ Exit

Spec == Init /\ [][Next]_vars

----------------------------------------------------------------------------
(* Properties of replace_print_with_logger, under SpecRewrite *)

ERROR_IN_SAVE ==
    <<"E","r","r","o","r"," ","i","n"," ","s","a","v","e">>
SAVE ==
    <<"s","a","v","e">>

TheFile == disk[file_path]
TheOriginal == orig[file_path]

\* C1: a content that holds print('DEBUG: Error in save: $e'); is rewritten
\* into one that holds Logger.e('<tag>', 'Error in save', e);
C1_ErrorInBecomesLoggerE ==
    (/\ passes = 1
     /\ Contains(TheOriginal, PRINT_SQ_DEBUG \o ERROR_IN_SAVE_E \o END_SQ))
    => Contains(TheFile, LOGGER_E \o log_tag \o LOGGER_E_ERROR_IN \o SAVE
                         \o QUOTE_COMMA_E_END)

\* C7: a content that holds print("<msg>: $e"); with a colon-free <msg> that
\* contains "Error", at its start or after other text, is rewritten into one
\* that holds Logger.e('<tag>', '<msg>', e);
C7_DoubleQuotedErrorBecomesLoggerE ==
    \A msg \in {ERROR_IN_SAVE, <<"x">> \o ERROR_IN_SAVE} :
        (/\ passes = 1
         /\ Contains(TheOriginal, PRINT_DQ \o msg \o COLON_DOLLAR_E_END_DQ))
        => Contains(TheFile, LOGGER_E \o log_tag \o QUOTE_COMMA_QUOTE \o msg
                             \o QUOTE_COMMA_E_END)

\* C3: a second pass of the rewriter leaves the result of the first unchanged.
C3_SecondPassChangesNothing ==
    passes = 2 => TheFile = prev

\* C10: within a pass, no rule matches text that a previous rule's
\* replacement produced.
C10_NoRuleMatchesProducedText ==
    passes = 1 => ~rematched

----------------------------------------------------------------------------
(* Properties of add_logger_import, under SpecImport *)

\* An "import ...;" line starts at position a of s: "import ", then one or
\* more characters other than ";", then ";" and the end of the line.
ImportLineAt(s, a) ==
    /\ HasAt(s, a, IMPORT_SPACE)
    /\ \E b \in (a + Len(IMPORT_SPACE) + 1)..Len(s) :
            /\ HasAt(s, b, SEMICOLON_NEWLINE)
            /\ \A k \in (a + Len(IMPORT_SPACE))..(b - 1) : s[k] # ";"
HasImportLine(s) == \E a \in 1..Len(s) : ImportLineAt(s, a)

\* The position that follows the first import line of s.
AfterFirstImportLine(s) ==
    LET a == CHOOSE x \in 1..Len(s) :
                ImportLineAt(s, x) /\ \A y \in 1..(x - 1) : ~ImportLineAt(s, y)
        b == CHOOSE x \in (a + Len(IMPORT_SPACE) + 1)..Len(s) :
                /\ HasAt(s, x, SEMICOLON_NEWLINE)
                /\ \A k \in (a + Len(IMPORT_SPACE))..(x - 1) : s[k] # ";"
    IN  b + Len(SEMICOLON_NEWLINE)

\* C4: when the logging import is absent and the file has an import line, the
\* file after the call is the file before it with the logging import line
\* inserted once, right after the first import line.
C4_InsertedOnceAfterFirstImport ==
    (/\ passes = 1
     /\ ~Contains(TheOriginal, LOGGER_IMPORT)
     /\ HasImportLine(TheOriginal))
    => LET at == AfterFirstImportLine(TheOriginal) IN
       TheFile = Slice(TheOriginal, 1, at) \o LOGGER_IMPORT_LINE
                 \o Slice(TheOriginal, at, Len(TheOriginal) + 1)

\* C8: a call on a file that holds the logging import, or that has no import
\* line, changes no file, writes nothing and prints nothing.
C8_NoImportNoChange ==
    [][(pc = "import"
        /\ (Contains(TheFile, LOGGER_IMPORT) \/ ~HasImportLine(TheFile)))
       => (disk' = disk /\ writes' = writes /\ out' = out)]_vars

\* a call has run on a file that has import lines and holds the logging import
C8_Witness ==
    /\ pc = "import"
    /\ passes >= 1
    /\ Contains(prev, LOGGER_IMPORT)
    /\ HasImportLine(prev)
    /\ TheFile = prev
    /\ writes = <<>> /\ out = <<>>

----------------------------------------------------------------------------
(* Properties of get_log_tag_from_path, under SpecTag *)

ONBOARDING_SCREEN ==
    <<"O","n","b","o","a","r","d","i","n","g","S","c","r","e","e","n">>
AUTH_PROVIDER ==
    <<"A","u","t","h","P","r","o","v","i","d","e","r">>

\* The characters of s other than "_": the first of each word upper-cased,
\* the others lower-cased (lowered) or kept as they are.
RECURSIVE CamelFrom(_, _, _)
CamelFrom(s, k, lowered) ==
    IF k > Len(s) THEN <<>>
    ELSE IF s[k] = "_" THEN CamelFrom(s, k + 1, lowered)
    ELSE <<IF k = 1 \/ s[k - 1] = "_" THEN ToUpper(s[k])
           ELSE IF lowered THEN ToLower(s[k]) ELSE s[k]>>
         \o CamelFrom(s, k + 1, lowered)

\* C9, as stated: the tag is the base name without its extension, the first
\* letter of each underscore-separated word upper-cased, the others kept.
C9_OtherLettersKept ==
    pc = "tagged" => class_name = CamelFrom(splitext_root(basename(file_path)), 1, FALSE)

\* C9, amended: the tag is the base name without its extension, the first
\* letter of each underscore-separated word upper-cased, the others
\* lower-cased; onboarding_screen.dart gives OnboardingScreen and
\* auth_provider.dart gives AuthProvider.
C9_OtherLettersLowered ==
    /\ pc = "tagged" =>
          class_name = CamelFrom(splitext_root(basename(file_path)), 1, TRUE)
    /\ get_log_tag_from_path(KF1) = ONBOARDING_SCREEN
    /\ get_log_tag_from_path(KF6) = AUTH_PROVIDER

\* the tag of aB_a.B has been computed: AbA
C9_Witness ==
    /\ pc = "tagged"
    /\ file_path = <<"a", "B", "_", "a", ".">>
    /\ class_name = <<"A", "b", "A">>

----------------------------------------------------------------------------
(* Properties of the script's run, under Spec *)

Called(path) == \E k \in 1..Len(calls) : calls[k] = path
IndexIn(seq, x) == CHOOSE k \in 1..Len(seq) : seq[k] = x

\* C2: process_file is called at most once with each path.
C2_AtMostOncePerPath ==
    \A a, b \in 1..Len(calls) : calls[a] = calls[b] => a = b

\* the run has ended, glob returned a key file that the first loop had
\* processed, and a file that only the scan found was processed as well
C2_Witness ==
    /\ pc = "done"
    /\ \E k \in 1..Len(dart_files) : InKeyFiles(dart_files[k]) /\ Called(dart_files[k])
    /\ \E k \in 1..Len(calls) : ~InKeyFiles(calls[k])

\* C5: only paths that exist are processed; the key files that exist are
\* processed in the order of key_files, all of them before any other file;
\* the other files are processed in the order glob returned them; and at the
\* end every existing key file and every other matched file but the logger's
\* own has been processed.
C5_ProcessingOrder ==
    /\ \A a \in 1..Len(calls) : calls[a] \in DOMAIN orig
    /\ \A a, b \in 1..Len(calls) :
          /\ (InKeyFiles(calls[a]) /\ InKeyFiles(calls[b]) /\ a < b)
                => IndexIn(key_files, calls[a]) < IndexIn(key_files, calls[b])
          /\ (InKeyFiles(calls[a]) /\ ~InKeyFiles(calls[b])) => a < b
          /\ (~InKeyFiles(calls[a]) /\ ~InKeyFiles(calls[b]) /\ a < b)
                => IndexIn(dart_files, calls[a]) < IndexIn(dart_files, calls[b])
    /\ pc = "done" =>
          /\ \A k \in 1..Len(key_files) :
                key_files[k] \in DOMAIN orig => Called(key_files[k])
          /\ \A p \in GlobMatches(DOMAIN orig) :
                (p # LOGGER_DART /\ ~InKeyFiles(p)) => Called(p)

\* the run has ended after processing two key files, then two other files,
\* with key files absent from the disk
C5_Witness ==
    /\ pc = "done"
    /\ Len(calls) = 4
    /\ InKeyFiles(calls[1]) /\ InKeyFiles(calls[2])
    /\ ~InKeyFiles(calls[3]) /\ ~InKeyFiles(calls[4])
    /\ \E k \in 1..Len(key_files) : key_files[k] \notin DOMAIN orig

\* C6: process_file is never called with lib/utils/logger.dart, and that
\* file's content stays what it was at the start.
C6_LoggerFileUntouched ==
    /\ ~Called(LOGGER_DART)
    /\ LOGGER_DART \in DOMAIN disk => disk[LOGGER_DART] = orig[LOGGER_DART]

\* the run has ended, glob returned the logger's file, which holds a print
\* call the rewriter would change, and other files were processed
C6_Witness ==
    /\ pc = "done"
    /\ \E k \in 1..Len(dart_files) : dart_files[k] = LOGGER_DART
    /\ Rewrite(disk[LOGGER_DART], get_log_tag_from_path(LOGGER_DART)).c
          # disk[LOGGER_DART]
    /\ Len(calls) >= 1

====
